---------------------------- MODULE Spec2Model ----------------------------
(***************************************************************************)
(* RM500Q modem monitor (src/main.c) as a state machine.                   *)
(*                                                                         *)
(* The program is one thread (main -> process_commands ->                  *)
(* request_modem_property -> send_at_command / read_response) plus the     *)
(* asynchronous signal_handler.  pc is the position of the thread; every   *)
(* action is one step of the code between two positions.  The serial       *)
(* channel and the allocator are the environment: write(), read() and      *)
(* malloc() return any of the results the calls can return.                *)
(*                                                                         *)
(* Bytes are the classes the code distinguishes: "NUL", "LF", "CR", and    *)
(* "x" for any other byte.  "?" is a byte of malloc'ed memory that has not *)
(* been written yet (its value is fixed the first time the code reads      *)
(* it).  "ERROR" stands for the five letters of the literal "ERROR".       *)
(***************************************************************************)
EXTENDS Integers, Sequences, FiniteSets, TLC

(***************************************************************************)
(* Bounds of the model.  The buffers are scaled: ResponseSize stands for   *)
(* the 1024 of `char response[1024]` / malloc(1024), CmdBufSize for the    *)
(* 256 of `char cmd_with_cr[256]`, CommandsSize for the 100 of             *)
(* `char *commands[100]`.                                                  *)
(***************************************************************************)
ResponseSize == 2
CmdBufSize == 4
MaxIter == 2
MaxCap == 4
CommandsSize == 2
MaxLines == 3

VARIABLES
    pc,          \* position of the main thread
    cfg,         \* read_config_file: the file, the line fgets returns next, the
                 \* values behind its out-parameters, in_commands_block, the result
    argv,        \* argv[1..argc-1]
    file_mode,   \* main: file_mode
    commands,    \* main: commands[0..command_count-1]
    running,     \* volatile sig_atomic_t running
    handlers,    \* TRUE once signal(SIGINT/SIGTERM, signal_handler) ran
    fd,          \* the serial handle: "none" | "open" | "closed"
    csv,         \* the FILE *csv_file: "none" | "open" | "closed"
    csv_file,    \* what has been written to the CSV stream, one entry per fprintf;
                 \* a response field is kept as "ERROR" (the literal) or "text"
    exit_code,   \* -1 while the process runs, else the value main returned
    i,           \* the loop index of the running for loop of process_commands
    responses,   \* process_commands: responses[0..count-1], <<>> = not allocated
    max_len,     \* read_response: max_len
    total_read,  \* read_response: total_read
    rd,          \* read_response: what the last read() returned
    ret,         \* read_response: its return value
    oob,         \* TRUE once a store went outside the response buffer
    delivered,   \* the bytes read() delivered during the current exchange
    lastOp,      \* the last operation of this iteration on the serial channel:
                 \* "none" | "flush" | "write" | "write_failed" | "read"
    sent,        \* the commands write() was called for in this iteration, in order
    written,     \* the bytes handed to the last write() of this iteration
    reads,       \* TRUE once read() was called in the current exchange
    failed,      \* the exchanges that failed in this iteration: <<i, "write" | "read">>
    iter,        \* iterations started (times `while (running)` was true)
    completed,   \* iterations whose exchange loop ran to its end
    sig          \* the first signal: the phase the thread was in, and the iterations
                 \* started, the data rows complete and the commands sent by then

vars == <<pc, cfg, argv, file_mode, commands, running, handlers, fd, csv, csv_file,
          exit_code, i, responses, max_len, total_read, rd, ret, oob, delivered,
          lastOp, sent, written, reads, failed, iter, completed, sig>>

\* the variables of process_commands and below (the frame of one iteration)
frame == <<i, responses, max_len, total_read, rd, ret, oob, delivered,
           lastOp, sent, written, reads, failed>>
\* the variables of main
mainv == <<cfg, argv, file_mode, commands, handlers, fd, csv, csv_file, exit_code>>
\* the variables of read_response
rrv == <<max_len, total_read, rd, ret, delivered>>

-----------------------------------------------------------------------------
(* Bytes and C strings *)

Byte == {"NUL", "LF", "x"}

\* the string literal "-c" and the commands the command line can name
DashC == <<"-", "c">>
ShortCmd == <<"A">>
LongCmd == [k \in 1..(CmdBufSize - 1) |-> "A"]

RECURSIVE SeqsUpTo(_, _)
SeqsUpTo(S, n) ==
    IF n = 0 THEN {<<>>}
    ELSE LET shorter == SeqsUpTo(S, n - 1)
         IN shorter \cup {Append(s, x) : s \in {t \in shorter : Len(t) = n - 1}, x \in S}

Min(a, b) == IF a < b THEN a ELSE b

\* a buffer of n bytes nobody has written: malloc(n)
Fresh(n) == [k \in 0..(n - 1) |-> "?"]

\* *(buf + k) = v; a store outside the buffer is not a store into it
Store(buf, k, v) == IF k \in DOMAIN buf THEN [buf EXCEPT ![k] = v] ELSE buf

RECURSIVE StoreAll(_, _, _)
StoreAll(buf, k, bytes) ==
    IF bytes = <<>> THEN buf
    ELSE StoreAll(Store(buf, k, bytes[1]), k + 1, Tail(bytes))

\* the C string at buf: the bytes before the first NUL (printf's %s)
RECURSIVE CStrFrom(_, _)
CStrFrom(buf, k) ==
    IF k \notin DOMAIN buf \/ buf[k] = "NUL" THEN <<>>
    ELSE <<buf[k]>> \o CStrFrom(buf, k + 1)

CStr(buf) == CStrFrom(buf, 0)


\* snprintf(dst, size, ...): at most size-1 bytes of the formatted text
Snprintf(size, text) == SubSeq(text, 1, Min(Len(text), size - 1))

\* send_at_command: the bytes of cmd_with_cr after snprintf(.., "%s\r", command),
\* which are the bytes write() is called with (strlen(cmd_with_cr) of them)
CmdWithCr(command) == Snprintf(CmdBufSize, command \o <<"CR">>)

\* strchr(buf, '\n') != NULL.  The scan runs from buf[0] to the first LF or
\* NUL.  A byte never written has whatever value the allocator left there;
\* the scan fixes it.  A scan that leaves the buffer reads memory that is not
\* the buffer's: either answer can come back.
RECURSIVE Scan(_, _)
Scan(buf, k) ==
    IF k \notin DOMAIN buf THEN {[buf |-> buf, found |-> b] : b \in BOOLEAN}
    ELSE IF buf[k] = "LF" THEN {[buf |-> buf, found |-> TRUE]}
    ELSE IF buf[k] = "NUL" THEN {[buf |-> buf, found |-> FALSE]}
    ELSE IF buf[k] = "?" THEN UNION {Scan([buf EXCEPT ![k] = v], k) : v \in Byte}
    ELSE Scan(buf, k + 1)

Strchr(buf) == Scan(buf, 0)

\* errno after a failed read()
Errnos == {"EAGAIN", "EWOULDBLOCK", "EIO"}

\* what read(fd, p, count) can return: n bytes (1 <= n <= count), 0, or -1 with errno
ReadResults(count) ==
    {[kind |-> "data", bytes |-> b, errno |-> "none"] :
        b \in {s \in SeqsUpTo(Byte, count) : Len(s) >= 1}}
    \cup {[kind |-> "zero", bytes |-> <<>>, errno |-> "none"]}
    \cup {[kind |-> "fail", bytes |-> <<>>, errno |-> e] : e \in Errnos}

-----------------------------------------------------------------------------
(* main: the command line *)

NoArgs == [file_mode |-> FALSE, filename |-> <<>>, cmds |-> <<>>, err |-> FALSE]

\* the for loop over argv, from argv[k]
RECURSIVE ParseArgs(_, _, _)
ParseArgs(av, k, st) ==
    IF k > Len(av) THEN st
    ELSE IF av[k] = DashC
         THEN IF k + 1 <= Len(av)
              THEN ParseArgs(av, k + 2,
                             [st EXCEPT !.file_mode = TRUE, !.filename = av[k + 1]])
              ELSE [st EXCEPT !.err = TRUE]
         ELSE ParseArgs(av, k + 1, [st EXCEPT !.cmds = Append(@, av[k])])

\* what read_config_file can return: -1, or the commands of the file
FileCmdLists == {<<>>, <<ShortCmd>>, <<ShortCmd, LongCmd>>}
ConfigYields ==
    {[count |-> -1, cmds |-> <<>>]}
    \cup {[count |-> Len(c), cmds |-> c] : c \in FileCmdLists}

command_count == Len(commands)

\* the header row create_csv_file writes
Header(cmds) ==
    <<<<"Timestamp">>>> \o [k \in 1..Len(cmds) |-> <<"col", cmds[k]>>] \o <<<<"nl">>>>

\* a main that reports success whatever it was asked to return
ReturnZero(code) == pc' = "exit" /\ exit_code' = 0

\* main returns code
Return(code) == pc' = "exit" /\ exit_code' = code

MainArgs ==
    /\ pc = "args"
    /\ LET st == ParseArgs(argv, 1, NoArgs)
       IN IF st.err
          THEN Return(1) /\ UNCHANGED <<file_mode, commands>>
          ELSE /\ file_mode' = st.file_mode
               /\ commands' = st.cmds
               /\ pc' = IF st.file_mode THEN "config" ELSE "open"
               /\ UNCHANGED exit_code
    /\ UNCHANGED <<cfg, argv, running, handlers, fd, csv, csv_file, frame, iter, completed, sig>>

MainConfig ==
    /\ pc = "config"
    /\ \E r \in ConfigYields :
          IF r.count < 0
          THEN Return(1) /\ UNCHANGED commands
          ELSE commands' = r.cmds /\ pc' = "open" /\ UNCHANGED exit_code
    /\ UNCHANGED <<cfg, argv, file_mode, running, handlers, fd, csv, csv_file, frame,
                   iter, completed, sig>>

MainOpen ==
    /\ pc = "open"
    /\ \/ fd' = "open" /\ pc' = "configure" /\ UNCHANGED exit_code
       \/ Return(1) /\ UNCHANGED fd
    /\ UNCHANGED <<cfg, argv, file_mode, commands, running, handlers, csv, csv_file, frame,
                   iter, completed, sig>>

MainConfigure ==
    /\ pc = "configure"
    /\ \/ pc' = "signal" /\ UNCHANGED <<fd, exit_code>>
       \/ fd' = "closed" /\ Return(1)
    /\ UNCHANGED <<cfg, argv, file_mode, commands, running, handlers, csv, csv_file, frame,
                   iter, completed, sig>>

MainSignal ==
    /\ pc = "signal"
    /\ handlers' = TRUE
    /\ pc' = "create_csv"
    /\ UNCHANGED <<cfg, argv, file_mode, commands, running, fd, csv, csv_file, exit_code,
                   frame, iter, completed, sig>>

MainCreateCsv ==
    /\ pc = "create_csv"
    /\ \/ /\ csv' = "open"
          /\ csv_file' = Header(commands)
          /\ pc' = "while"
          /\ UNCHANGED <<fd, exit_code>>
       \/ /\ fd' = "closed"
          /\ Return(1)
          /\ UNCHANGED <<csv, csv_file>>
    /\ UNCHANGED <<cfg, argv, file_mode, commands, running, handlers, frame, iter,
                   completed, sig>>

-----------------------------------------------------------------------------
(* main: the polling loop and the shutdown *)

\* where the thread is, as the claims name it
InSetup == pc \in {"args", "config", "open", "configure", "signal", "create_csv"}
Between == pc \in {"while", "usleep"}
InBatch == pc \in {"exchange", "send", "rr_while", "rr_read", "rr_terminate",
                   "rr_ret", "error", "stamp", "field", "newline"}
AfterLoop == pc \in {"fclose", "close", "free", "exit"}

Phase ==
    IF InSetup THEN "setup"
    ELSE IF Between THEN "between"
    ELSE IF pc = "alloc" THEN "alloc"
    ELSE IF InBatch THEN "batch"
    ELSE "closing"

\* complete rows of the CSV stream: the number of newlines written
Newlines(f) == Cardinality({k \in 1..Len(f) : f[k] = <<"nl">>})

\* `while (running)`: true starts process_commands, false leaves the loop
MainWhile ==
    /\ pc = "while"
    /\ IF running = 1
       THEN /\ iter < MaxIter
            /\ iter' = iter + 1
            /\ pc' = "alloc"
            /\ i' = 0
            /\ responses' = [k \in 1..command_count |-> <<>>]
       ELSE /\ pc' = "fclose"
            /\ UNCHANGED <<iter, i, responses>>
    /\ UNCHANGED <<mainv, running, rrv, oob, lastOp, sent, written, reads, failed,
                   completed, sig>>

\* usleep(interval * 1000): pc = "usleep" from the return of process_commands
\* until the sleep is over (the interval has passed, or a signal cut it short)
MainSleep ==
    /\ pc = "usleep"
    /\ pc' = "while"
    /\ UNCHANGED <<mainv, running, frame, iter, completed, sig>>

MainFclose ==
    /\ pc = "fclose"
    /\ csv' = "closed"
    /\ pc' = "close"
    /\ UNCHANGED <<cfg, argv, file_mode, commands, running, handlers, fd, csv_file,
                   exit_code, frame, iter, completed, sig>>

\* a shutdown that forgets close(fd)
MainCloseOmitted ==
    /\ pc = "close"
    /\ pc' = "free"
    /\ UNCHANGED <<cfg, argv, file_mode, commands, running, handlers, fd, csv, csv_file,
                   exit_code, frame, iter, completed, sig>>

\* close(fd)
MainClose ==
    /\ pc = "close"
    /\ fd' = "closed"
    /\ pc' = "free"
    /\ UNCHANGED <<cfg, argv, file_mode, commands, running, handlers, csv, csv_file,
                   exit_code, frame, iter, completed, sig>>

\* free(device), the frees of file mode, return 0
MainExit ==
    /\ pc = "free"
    /\ Return(0)
    /\ UNCHANGED <<cfg, argv, file_mode, commands, running, handlers, fd, csv, csv_file,
                   frame, iter, completed, sig>>

\* a handler that ends the process itself instead of setting the flag only
signal_handler_exits ==
    /\ running' = 0
    /\ Return(0)

\* the body of signal_handler
signal_handler ==
    /\ running' = 0
    /\ UNCHANGED <<pc, exit_code>>

\* SIGINT or SIGTERM is delivered once the handlers are installed; sig keeps
\* where the first one found the thread
Signal ==
    /\ handlers
    /\ pc # "exit"
    /\ signal_handler
    /\ sig' = IF sig.when = "none"
              THEN [when |-> Phase, iter |-> iter, rows |-> Newlines(csv_file) - 1,
                    sent |-> Len(sent)]
              ELSE sig
    /\ UNCHANGED <<cfg, argv, file_mode, commands, handlers, fd, csv, csv_file, frame,
                   iter, completed>>

-----------------------------------------------------------------------------
(* process_commands *)

MallocSize == ResponseSize

\* process_commands returns to main's usleep: its frame is gone
ProcReturn ==
    /\ pc' = "usleep"
    /\ i' = 0
    /\ responses' = <<>>
    /\ lastOp' = "none"
    /\ sent' = <<>>
    /\ written' = <<>>
    /\ failed' = {}

\* the first loop: responses[i] = malloc(1024), or return when it fails
ProcAlloc ==
    /\ pc = "alloc"
    /\ IF i < command_count
       THEN \/ /\ responses' = [responses EXCEPT ![i + 1] = Fresh(MallocSize)]
               /\ i' = i + 1
               /\ UNCHANGED <<pc, lastOp, sent, written, failed>>
            \/ ProcReturn
       ELSE /\ i' = 0
            /\ pc' = "exchange"
            /\ UNCHANGED <<responses, lastOp, sent, written, failed>>
    /\ UNCHANGED <<mainv, running, rrv, oob, reads, iter, completed, sig>>

\* a second loop that also stops when the termination flag is set
MoreCommandsWhileRunning == i < command_count /\ running = 1

\* the condition of the second loop
MoreCommands == i < command_count

\* a flush_serial_port that does nothing to the channel
flush_omitted == lastOp

\* flush_serial_port: tcflush(fd, TCIOFLUSH)
flush_serial_port == "flush"

\* the second loop: its condition, then the flush before the exchange
ProcExchange ==
    /\ pc = "exchange"
    /\ IF MoreCommands
       THEN /\ lastOp' = flush_serial_port
            /\ reads' = FALSE
            /\ delivered' = <<>>
            /\ pc' = "send"
            /\ UNCHANGED completed
       ELSE /\ completed' = completed + 1
            /\ pc' = "stamp"
            /\ UNCHANGED <<lastOp, reads, delivered>>
    /\ UNCHANGED <<mainv, running, i, responses, max_len, total_read, rd, ret, oob,
                   sent, written, failed, iter, sig>>

\* a request_modem_property that reads whatever send_at_command returned
AfterSendAlwaysReads(ok) == "rr_while"

\* request_modem_property after send_at_command returned: read, or return -1
AfterSend(ok) == IF ok THEN "rr_while" ELSE "error"

\* request_modem_property calls send_at_command: one write() of cmd_with_cr,
\* which succeeds (n >= 0) or fails (n < 0)
ProcSend ==
    /\ pc = "send"
    /\ written' = CmdWithCr(commands[i + 1])
    /\ sent' = Append(sent, i)
    /\ \E ok \in BOOLEAN :
          /\ lastOp' = (IF ok THEN "write" ELSE "write_failed")
          /\ pc' = AfterSend(ok)
    \* read_response(fd, response, sizeof(response)) is entered with total_read = 0
    /\ max_len' = (IF pc' = "rr_while" THEN ResponseSize ELSE max_len)
    /\ total_read' = 0
    /\ UNCHANGED <<mainv, running, i, responses, rd, ret, oob, delivered, reads,
                   failed, iter, completed, sig>>

-----------------------------------------------------------------------------
(* read_response(fd, responses[i], max_len) *)

\* the buffer read_response was given
response == responses[i + 1]

\* a count that leaves no room for the terminating NUL
ReadCountNoRoom(ml, tr) == ml - tr

\* the third argument of read(): max_len - total_read - 1
ReadCount(ml, tr) == ml - tr - 1

\* a loop that takes every failed read for a hard failure
IsRetryNever(e) == FALSE

\* errno == EAGAIN || errno == EWOULDBLOCK
IsRetry(e) == e = "EAGAIN" \/ e = "EWOULDBLOCK"

\* while (total_read < max_len - 1)
RrWhile ==
    /\ pc = "rr_while"
    /\ pc' = IF total_read < max_len - 1 THEN "rr_read" ELSE "rr_terminate"
    /\ UNCHANGED <<mainv, running, i, responses, rrv, oob, lastOp, sent, written,
                   reads, failed, iter, completed, sig>>

\* the body of the loop: read(), then the branches on bytes_read
RrRead ==
    /\ pc = "rr_read"
    /\ \E r \in ReadResults(ReadCount(max_len, total_read)) :
          /\ rd' = (IF r.kind = "fail" THEN r.errno ELSE r.kind)
          /\ CASE r.kind = "fail" ->
                    /\ IF IsRetry(r.errno)
                       THEN pc' = "rr_while" /\ UNCHANGED ret
                       ELSE pc' = "rr_ret" /\ ret' = -1
                    /\ UNCHANGED <<responses, total_read, delivered, oob>>
               [] r.kind = "zero" ->
                    /\ pc' = "rr_terminate"
                    /\ UNCHANGED <<responses, total_read, delivered, oob, ret>>
               [] r.kind = "data" ->
                    LET n == Len(r.bytes)
                        filled == StoreAll(response, total_read, r.bytes)
                    IN /\ total_read' = total_read + n
                       /\ delivered' = delivered \o r.bytes
                       /\ oob' = (oob \/ (total_read + n - 1) \notin DOMAIN response)
                       /\ \E s \in Strchr(filled) :
                             /\ responses' = [responses EXCEPT ![i + 1] = s.buf]
                             /\ pc' = IF s.found THEN "rr_terminate" ELSE "rr_while"
                       /\ UNCHANGED ret
    /\ lastOp' = "read"
    /\ reads' = TRUE
    /\ UNCHANGED <<mainv, running, i, max_len, sent, written, failed, iter,
                   completed, sig>>

\* response[total_read] = '\0'; return total_read
RrTerminate ==
    /\ pc = "rr_terminate"
    /\ responses' = [responses EXCEPT ![i + 1] = Store(response, total_read, "NUL")]
    /\ oob' = (oob \/ total_read \notin DOMAIN response)
    /\ ret' = total_read
    /\ pc' = "rr_ret"
    /\ UNCHANGED <<mainv, running, i, max_len, total_read, rd, delivered, lastOp,
                   sent, written, reads, failed, iter, completed, sig>>

-----------------------------------------------------------------------------
(* process_commands, after the exchange *)

\* request_modem_property returns -1 when read_response returned < 0, else 0;
\* process_commands goes on with the next command or records the error
ProcResult ==
    /\ pc = "rr_ret"
    /\ IF ret < 0
       THEN pc' = "error" /\ UNCHANGED <<i, ret, reads>>
       ELSE pc' = "exchange" /\ i' = i + 1 /\ ret' = 0 /\ reads' = FALSE
    /\ max_len' = 0
    /\ total_read' = 0
    /\ rd' = "none"
    /\ delivered' = <<>>
    /\ UNCHANGED <<mainv, running, responses, oob, lastOp, sent, written, failed,
                   iter, completed, sig>>

\* an error branch that leaves the response buffer as the failed exchange left it
StrcpyErrorMissing(buf) == buf

\* strcpy(responses[i], "ERROR")
StrcpyError(buf) == StoreAll(buf, 0, <<"ERROR", "NUL">>)

\* the body of `if (request_modem_property(...) != 0)`
ProcError ==
    /\ pc = "error"
    /\ responses' = [responses EXCEPT ![i + 1] = StrcpyError(response)]
    /\ failed' = failed \cup {<<i, IF ret < 0 THEN "read" ELSE "write">>}
    /\ i' = i + 1
    /\ ret' = 0
    /\ reads' = FALSE
    /\ pc' = "exchange"
    /\ UNCHANGED <<mainv, running, max_len, total_read, rd, delivered, oob, lastOp,
                   sent, written, iter, completed, sig>>

\* the text of a field, as the stream keeps it
ErrorText == <<"ERROR">>
FieldOf(text) == IF text = ErrorText THEN "ERROR" ELSE "text"

\* the timestamp, and fprintf(csv_file, "\"%s\"", timestamp)
ProcStamp ==
    /\ pc = "stamp"
    /\ csv_file' = Append(csv_file, <<"ts">>)
    /\ i' = 0
    /\ pc' = "field"
    /\ UNCHANGED <<cfg, argv, file_mode, commands, running, handlers, fd, csv, exit_code,
                   responses, rrv, oob, lastOp, sent, written, reads, failed, iter,
                   completed, sig>>

\* the third loop: fprintf(csv_file, ",\"%s\"", responses[i]); free(responses[i])
ProcField ==
    /\ pc = "field"
    /\ IF i < command_count
       THEN /\ csv_file' = Append(csv_file, <<"field", FieldOf(CStr(response))>>)
            /\ responses' = [responses EXCEPT ![i + 1] = <<>>]
            /\ i' = i + 1
            /\ UNCHANGED pc
       ELSE /\ pc' = "newline"
            /\ UNCHANGED <<csv_file, responses, i>>
    /\ UNCHANGED <<cfg, argv, file_mode, commands, running, handlers, fd, csv, exit_code,
                   rrv, oob, lastOp, sent, written, reads, failed, iter, completed, sig>>

\* fprintf(csv_file, "\n"), and the return to main
ProcNewline ==
    /\ pc = "newline"
    /\ csv_file' = Append(csv_file, <<"nl">>)
    /\ ProcReturn
    /\ UNCHANGED <<cfg, argv, file_mode, commands, running, handlers, fd, csv, exit_code,
                   rrv, oob, reads, iter, completed, sig>>

-----------------------------------------------------------------------------
(* read_config_file and the string functions it calls.  A string is the    *)
(* sequence of its characters (without the terminating NUL); a file is the *)
(* sequence of the lines fgets returns, each shorter than line[256] and    *)
(* ending with its '\n'.                                                   *)

\* a string literal as the sequence of its characters
Chars(s) == [k \in 1..Len(s) |-> SubSeq(s, k, k)]

Range(s) == {s[k] : k \in DOMAIN s}

UpperCase == Chars("ABCDEFGHIJKLMNOPQRSTUVWXYZ")
LowerCase == Chars("abcdefghijklmnopqrstuvwxyz")
Digits == Chars("0123456789")

IndexIn(alphabet, c) == CHOOSE k \in 1..Len(alphabet) : alphabet[k] = c

tolower(c) == IF c \in Range(UpperCase) THEN LowerCase[IndexIn(UpperCase, c)] ELSE c
toupper(c) == IF c \in Range(LowerCase) THEN UpperCase[IndexIn(LowerCase, c)] ELSE c
isspace(c) == c \in {" ", "\t", "\n", "\r"}
isdigit(c) == c \in Range(Digits)

\* a to_lowercase that leaves the string as it is
to_lowercase_unchanged(str) == str

\* to_lowercase: tolower on every character
to_lowercase(str) == [k \in 1..Len(str) |-> tolower(str[k])]

\* strcspn(s, reject): the length of the start of s free of the characters of reject
Strcspn(s, reject) ==
    IF \E k \in 1..Len(s) : s[k] \in reject
    THEN (CHOOSE k \in 1..Len(s) :
             s[k] \in reject /\ \A m \in 1..(k - 1) : s[m] \notin reject) - 1
    ELSE Len(s)

\* strncmp(s, key, strlen(key)) == 0
Strncmp0(s, key) == Len(s) >= Len(key) /\ SubSeq(s, 1, Len(key)) = key

\* the string at s + n
Skip(s, n) == SubSeq(s, n + 1, Len(s))

\* the index of the first character of s that is no white space, Len(s)+1 if none
FirstNonSpace(s) ==
    IF \E k \in 1..Len(s) : ~isspace(s[k])
    THEN CHOOSE k \in 1..Len(s) : ~isspace(s[k]) /\ \A m \in 1..(k - 1) : isspace(s[m])
    ELSE Len(s) + 1

\* trim_whitespace(str), as the caller sees str afterwards: the local pointer
\* is moved past the leading white space, and the NUL is stored after the
\* last character that is no white space; a string of white space only is
\* left alone
trim_whitespace(str) ==
    LET start == FirstNonSpace(str)
    IN IF start > Len(str) THEN str
       ELSE LET end == CHOOSE e \in start..Len(str) :
                          /\ ~isspace(str[e])
                          /\ \A m \in (e + 1)..Len(str) : isspace(str[m])
            IN SubSeq(str, 1, end)

\* remove_surrounding_quotes(str)
remove_surrounding_quotes(str) ==
    IF Len(str) > 1 /\ str[1] = "\"" /\ str[Len(str)] = "\""
    THEN SubSeq(str, 2, Len(str) - 1)
    ELSE str

\* atoi(s): white space, an optional sign, then the digits (values that fit an int)
RECURSIVE AtoiDigits(_, _, _)
AtoiDigits(s, k, acc) ==
    IF k > Len(s) \/ ~isdigit(s[k]) THEN acc
    ELSE AtoiDigits(s, k + 1, acc * 10 + (IndexIn(Digits, s[k]) - 1))

atoi(s) ==
    LET k == FirstNonSpace(s)
    IN IF k > Len(s) THEN 0
       ELSE IF s[k] = "-" THEN 0 - AtoiDigits(s, k + 1, 0)
       ELSE IF s[k] = "+" THEN AtoiDigits(s, k + 1, 0)
       ELSE AtoiDigits(s, k, 0)

\* the tokens strtok(buffer, ",") and then strtok(NULL, ",") return, in order:
\* the maximal runs of characters other than ','
RECURSIVE Strtok(_)
Strtok(s) ==
    LET n == Strcspn(s, {","})
        rest == Skip(s, n + 1)
    IN IF s = <<>> THEN <<>>
       ELSE IF n = 0 THEN Strtok(rest)
       ELSE <<SubSeq(s, 1, n)>> \o Strtok(rest)

\* the defaults of main
DEFAULT_DEVICE == Chars("/dev/ttyUSB3")
DEFAULT_BAUD_RATE == 115200
DEFAULT_INTERVAL == 1000
DEFAULT_OUTPUT_FOLDER == Chars(".")

\* sizeof(commands) / sizeof(commands[0]), which main passes as max_count
max_count == CommandsSize

\* the inner loop over the tokens of one line: trim, unquote, strdup and store
\* at commands[count], until the tokens end or count >= max_count after a
\* store.  failAt = n: the n-th strdup from here returns NULL (never, if n <= 0).
RECURSIVE StoreCommands(_, _, _)
StoreCommands(tokens, cmds, failAt) ==
    IF tokens = <<>> THEN [cmds |-> cmds, failed |-> FALSE]
    ELSE IF failAt = 1 THEN [cmds |-> cmds, failed |-> TRUE]
    ELSE LET cmd == remove_surrounding_quotes(trim_whitespace(Head(tokens)))
             stored == Append(cmds, cmd)
         IN IF Len(stored) >= max_count
            THEN [cmds |-> stored, failed |-> FALSE]
            ELSE StoreCommands(Tail(tokens), stored, failAt - 1)

\* the if / else-if chain on the keys, for one line: the frame afterwards,
\* and how the turn goes on: "continue" for the commands: line, "return" when a
\* strdup failed, else "block" (the `if (in_commands_block)` below the chain)
Setting(c, line, lower_line, failAt) ==
    IF Strncmp0(lower_line, Chars("device:"))
    THEN IF failAt = 1
         THEN [c |-> [c EXCEPT !.device = <<>>], next |-> "return"]
         ELSE [c |-> [c EXCEPT !.device =
                         remove_surrounding_quotes(trim_whitespace(Skip(line, 7)))],
               next |-> "block"]
    ELSE IF Strncmp0(lower_line, Chars("baud_rate:"))
    THEN [c |-> [c EXCEPT !.baud_rate = atoi(Skip(line, 10))], next |-> "block"]
    ELSE IF Strncmp0(lower_line, Chars("commands:"))
    THEN [c |-> [c EXCEPT !.in_commands_block = TRUE], next |-> "continue"]
    ELSE IF Strncmp0(lower_line, Chars("interval:"))
    THEN [c |-> [c EXCEPT !.interval = atoi(Skip(line, 9))], next |-> "block"]
    ELSE IF Strncmp0(lower_line, Chars("output_folder:"))
    THEN IF failAt = 1
         THEN [c |-> [c EXCEPT !.output_folder = <<>>], next |-> "return"]
         ELSE [c |-> [c EXCEPT !.output_folder =
                         remove_surrounding_quotes(trim_whitespace(Skip(line, 14)))],
               next |-> "block"]
    ELSE [c |-> c, next |-> "block"]

\* the strdup calls of the chain for this line
ChainAllocs(lower_line) ==
    IF Strncmp0(lower_line, Chars("device:"))
       \/ (~Strncmp0(lower_line, Chars("baud_rate:"))
           /\ ~Strncmp0(lower_line, Chars("commands:"))
           /\ ~Strncmp0(lower_line, Chars("interval:"))
           /\ Strncmp0(lower_line, Chars("output_folder:")))
    THEN 1 ELSE 0

\* read_config_file is called for a file: nothing read yet, the out-parameters
\* hold the defaults of main
ConfigFrame(file) ==
    [file |-> file, pos |-> 1, device |-> DEFAULT_DEVICE,
     baud_rate |-> DEFAULT_BAUD_RATE, interval |-> DEFAULT_INTERVAL,
     output_folder |-> DEFAULT_OUTPUT_FOLDER, in_commands_block |-> FALSE, ret |-> 0]

\* fopen(filename, "r") and the strdup of the default output folder
CfgFopen ==
    /\ pc = "cfg_fopen"
    /\ \/ /\ cfg' = [cfg EXCEPT !.output_folder = DEFAULT_OUTPUT_FOLDER]
          /\ pc' = "cfg_fgets"
       \/ /\ cfg' = [cfg EXCEPT !.ret = -1]
          /\ pc' = "cfg_ret"
    /\ UNCHANGED <<argv, file_mode, commands, running, handlers, fd, csv, csv_file,
                   exit_code, frame, iter, completed, sig>>

\* one turn of `while (fgets(line, sizeof(line), file) != NULL)`, and the
\* fclose and return after the loop
CfgFgets ==
    /\ pc = "cfg_fgets"
    /\ IF cfg.pos > Len(cfg.file)
       THEN /\ cfg' = [cfg EXCEPT !.ret = Len(commands)]
            /\ pc' = "cfg_ret"
            /\ UNCHANGED commands
       ELSE LET raw == cfg.file[cfg.pos]
                line == SubSeq(raw, 1, Strcspn(raw, {"\r", "\n"}))
                lower_line == to_lowercase(line)
                tokens == Strtok(line)
            IN \E failAt \in 0..(1 + Len(tokens)) :
                  LET t == Setting([cfg EXCEPT !.pos = @ + 1], line, lower_line, failAt)
                      c == t.c
                      s == StoreCommands(tokens, commands,
                                         failAt - ChainAllocs(lower_line))
                  IN CASE t.next = "return" ->
                            /\ cfg' = [c EXCEPT !.ret = -1]
                            /\ pc' = "cfg_ret"
                            /\ UNCHANGED commands
                       [] t.next = "continue" \/ (t.next = "block" /\ ~c.in_commands_block) ->
                            /\ cfg' = c
                            /\ UNCHANGED <<pc, commands>>
                       [] t.next = "block" /\ c.in_commands_block ->
                            IF line # <<>> /\ line[1] = "}"
                            THEN /\ cfg' = [c EXCEPT !.ret = Len(commands)]
                                 /\ pc' = "cfg_ret"
                                 /\ UNCHANGED commands
                            ELSE IF line # <<>> /\ line[1] = "{"
                            THEN cfg' = c /\ UNCHANGED <<pc, commands>>
                            ELSE /\ commands' = s.cmds
                                 /\ IF s.failed
                                    THEN cfg' = [c EXCEPT !.ret = -1] /\ pc' = "cfg_ret"
                                    ELSE cfg' = c /\ UNCHANGED pc
    /\ UNCHANGED <<argv, file_mode, running, handlers, fd, csv, csv_file,
                   exit_code, frame, iter, completed, sig>>

-----------------------------------------------------------------------------
(* The specifications *)

\* the command lines main is started with: no argument, commands, -c with and
\* without its file name
ArgVectors ==
    {<<>>, <<ShortCmd>>, <<LongCmd>>, <<ShortCmd, LongCmd>>,
     <<DashC>>, <<DashC, ShortCmd>>, <<ShortCmd, DashC>>}

NoSignal == [when |-> "none", iter |-> 0, rows |-> 0, sent |-> 0]

\* the process starts: main is entered with some command line
Init ==
    /\ pc = "args"
    /\ cfg = ConfigFrame(<<>>)
    /\ argv \in ArgVectors
    /\ file_mode = FALSE
    /\ commands = <<>>
    /\ running = 1
    /\ handlers = FALSE
    /\ fd = "none"
    /\ csv = "none"
    /\ csv_file = <<>>
    /\ exit_code = -1
    /\ i = 0
    /\ responses = <<>>
    /\ max_len = 0
    /\ total_read = 0
    /\ rd = "none"
    /\ ret = 0
    /\ oob = FALSE
    /\ delivered = <<>>
    /\ lastOp = "none"
    /\ sent = <<>>
    /\ written = <<>>
    /\ reads = FALSE
    /\ failed = {}
    /\ iter = 0
    /\ completed = 0
    /\ sig = NoSignal

\* a step of the thread
Step ==
    \/ MainArgs
    \/ MainConfig
    \/ MainOpen
    \/ MainConfigure
    \/ MainSignal
    \/ MainCreateCsv
    \/ MainWhile
    \/ MainSleep
    \/ MainFclose
    \/ MainClose
    \/ MainExit
    \/ ProcAlloc
    \/ ProcExchange
    \/ ProcSend
    \/ RrWhile
    \/ RrRead
    \/ RrTerminate
    \/ ProcResult
    \/ ProcError
    \/ ProcStamp
    \/ ProcField
    \/ ProcNewline

Next == Step \/ Signal

Spec == Init /\ [][Next]_vars

\* the thread is never stopped for good: its next step is eventually taken
FairSpec == Spec /\ WF_vars(Step)

\* read_response alone: called with a buffer of max_len bytes, any max_len >= 1
InitRead ==
    /\ pc = "rr_while"
    /\ cfg = ConfigFrame(<<>>)
    /\ max_len \in 1..MaxCap
    /\ responses = <<Fresh(max_len)>>
    /\ argv = <<ShortCmd>>
    /\ file_mode = FALSE
    /\ commands = <<ShortCmd>>
    /\ running = 1
    /\ handlers = TRUE
    /\ fd = "open"
    /\ csv = "open"
    /\ csv_file = Header(<<ShortCmd>>)
    /\ exit_code = -1
    /\ i = 0
    /\ total_read = 0
    /\ rd = "none"
    /\ ret = 0
    /\ oob = FALSE
    /\ delivered = <<>>
    /\ lastOp = "write"
    /\ sent = <<0>>
    /\ written = CmdWithCr(ShortCmd)
    /\ reads = FALSE
    /\ failed = {}
    /\ iter = 1
    /\ completed = 0
    /\ sig = NoSignal

NextRead == RrWhile \/ RrRead \/ RrTerminate

SpecRead == InitRead /\ [][NextRead]_vars

FairSpecRead == SpecRead /\ WF_vars(NextRead)

\* a line of a file, as fgets returns it
Text(s) == Chars(s) \o <<"\n">>
TextCRLF(s) == Chars(s) \o <<"\r", "\n">>

\* the file of the scenario, and a commands block written on one line
ScenarioFile ==
    <<Text("device: /dev/ttyS0"), Text("baud_rate: 9600"), Text("interval: 500"),
      Text("commands: {"), Text("AT+CSQ, AT+CREG?"), Text("}")>>
OneLineBlockFile == <<Text("commands: { \"AT+CSQ\", AT+CREG? }")>>
SeveralLinesBlockFile ==
    <<Text("commands: {"), Text("\"AT+CSQ\","), Text("AT+CREG?"), Text("}")>>

\* every capitalisation of a key
RECURSIVE Capitalisations(_)
Capitalisations(key) ==
    IF key = <<>> THEN {<<>>}
    ELSE {<<c>> \o rest : c \in {Head(key), toupper(Head(key))},
                          rest \in Capitalisations(Tail(key))}

\* the keys, each with the value texts the files give it
KeyNames == {"device:", "baud_rate:", "interval:", "output_folder:", "commands:"}
ValueTexts(key) ==
    CASE key = "device:" -> {" /dev/ttyS0", "\"/Dev/TTY\" "}
      [] key = "baud_rate:" -> {" 9600"}
      [] key = "interval:" -> {"500"}
      [] key = "output_folder:" -> {" Out/Dir"}
      [] key = "commands:" -> {" {"}

\* one setting line with its key in any capitalisation; after a commands: line
\* the block of one command
SettingFiles ==
    UNION {{<<k \o Text(v)>> \o (IF key = "commands:"
                                 THEN <<Text("At+Csq"), Text("}")>> ELSE <<>>) :
               k \in Capitalisations(Chars(key)), v \in ValueTexts(key)} :
           key \in KeyNames}

\* commands blocks of up to MaxLines lines
BlockLines ==
    {Text("A"), Text("A,B"), Text(" \"A\" , B "), Text("\"\""), Text("A,,B,C"),
     TextCRLF("A"), Text("{"), Text("}")}
BlockFiles == {<<Text("commands:")>> \o b : b \in SeqsUpTo(BlockLines, MaxLines)}

ConfigFiles ==
    {ScenarioFile, OneLineBlockFile, SeveralLinesBlockFile}
    \cup SettingFiles \cup BlockFiles

\* read_config_file alone: main has seen -c and calls it for some file
InitConfig ==
    /\ pc = "cfg_fopen"
    /\ cfg \in {ConfigFrame(f) : f \in ConfigFiles}
    /\ argv = <<DashC, ShortCmd>>
    /\ file_mode = TRUE
    /\ commands = <<>>
    /\ running = 1
    /\ handlers = FALSE
    /\ fd = "none"
    /\ csv = "none"
    /\ csv_file = <<>>
    /\ exit_code = -1
    /\ i = 0
    /\ responses = <<>>
    /\ max_len = 0
    /\ total_read = 0
    /\ rd = "none"
    /\ ret = 0
    /\ oob = FALSE
    /\ delivered = <<>>
    /\ lastOp = "none"
    /\ sent = <<>>
    /\ written = <<>>
    /\ reads = FALSE
    /\ failed = {}
    /\ iter = 0
    /\ completed = 0
    /\ sig = NoSignal

NextConfig == CfgFopen \/ CfgFgets

SpecConfig == InitConfig /\ [][NextConfig]_vars

-----------------------------------------------------------------------------
(* What the claims speak about *)

N == command_count
AllCommands == [k \in 1..N |-> k - 1]
DataRows == Newlines(csv_file) - 1
RowPhase == pc \in {"stamp", "field", "newline"}
InReadResponse == pc \in {"rr_while", "rr_read", "rr_terminate", "rr_ret"}
FailedExchanges == {f[1] : f \in failed}

\* the entries written since the last newline: the row being written
LastNewline == IF Newlines(csv_file) = 0 THEN 0
               ELSE CHOOSE k \in 1..Len(csv_file) :
                       /\ csv_file[k] = <<"nl">>
                       /\ \A m \in (k + 1)..Len(csv_file) : csv_file[m] # <<"nl">>
CurrentRow == SubSeq(csv_file, LastNewline + 1, Len(csv_file))

\* the stream is the header row and k data rows, each a timestamp, one field
\* per command and a newline, and nothing else
IsField(e) == Len(e) = 2 /\ e[1] = "field"
WellFormed(k) ==
    /\ Len(csv_file) = (N + 2) * (k + 1)
    /\ SubSeq(csv_file, 1, N + 2) = Header(commands)
    /\ \A r \in 1..k :
          LET row == SubSeq(csv_file, (N + 2) * r + 1, (N + 2) * (r + 1))
          IN /\ row[1] = <<"ts">>
             /\ \A c \in 2..(N + 1) : IsField(row[c])
             /\ row[N + 2] = <<"nl">>

-----------------------------------------------------------------------------
\* C1: every row process_commands emits is one timestamp followed by exactly N
\* response fields, in the order of the commands, and the field of every
\* command whose exchange failed is the literal ERROR, whichever exchanges failed.
C1_RowHasOneFieldPerCommand ==
    /\ csv # "none" /\ ~RowPhase => WellFormed(DataRows) /\ DataRows = completed
    /\ pc \in {"field", "newline"} =>
          /\ Len(CurrentRow) = 1 + (IF pc = "newline" THEN N ELSE i)
          /\ CurrentRow[1] = <<"ts">>
          /\ \A k \in 1..(Len(CurrentRow) - 1) :
                /\ IsField(CurrentRow[k + 1])
                /\ (k - 1) \in FailedExchanges => CurrentRow[k + 1] = <<"field", "ERROR">>

\* a row of two fields is complete but for its newline; the first exchange
\* failed, the second did not
C1_Witness ==
    /\ pc = "newline"
    /\ N = 2
    /\ FailedExchanges = {0}
    /\ CurrentRow = <<<<"ts">>, <<"field", "ERROR">>, <<"field", "text">>>>

\* C2: when the first termination signal arrives between two iterations, the
\* process exits with the stream closed, and the stream is the header row
\* followed by exactly the data rows of the iterations completed by then, each
\* row complete.
C2_ClosedFileHasCompletedRows ==
    pc = "exit" /\ sig.when = "between" =>
        /\ exit_code = 0
        /\ csv = "closed"
        /\ DataRows = completed
        /\ DataRows = sig.rows
        /\ WellFormed(completed)

C2_Witness ==
    /\ pc = "exit"
    /\ sig.when = "between"
    /\ sig.rows = 2
    /\ N = 2
    /\ csv = "closed"

\* C3: a signal that arrives during a batch does not abort it (every command
\* of the batch is still sent and the row is written), and once the flag is
\* set no further iteration is started.
C3_BatchFinishesThenStops ==
    /\ running = 0 => iter = sig.iter
    /\ sig.when = "batch" /\ RowPhase => sent = AllCommands
    /\ sig.when = "batch" /\ (Between \/ AfterLoop) => DataRows = sig.rows + 1

\* the signal came when one of two commands had been sent; the process has
\* left the loop with the row of that batch written
C3_Witness ==
    /\ pc = "exit"
    /\ sig.when = "batch"
    /\ N = 2
    /\ sig.sent = 1
    /\ DataRows = sig.rows + 1
    /\ iter = 1

\* C4: one send hands write() the bytes of the command followed by exactly one
\* carriage return, len(C)+1 bytes, whatever the length of the command.
C4_SendWritesCommandAndCR ==
    lastOp \in {"write", "write_failed"} /\ sent # <<>> =>
        LET command == commands[sent[Len(sent)] + 1]
        IN /\ written = command \o <<"CR">>
           /\ Len(written) = Len(command) + 1

\* C5: for every capacity max_len >= 1 and whatever the reads return,
\* read_response never stores outside the max_len bytes of the buffer, keeps at
\* most max_len-1 data bytes, and returns with the bytes delivered stored in
\* order, the NUL right after them at an index <= max_len-1, and their count
\* as its result.
C5_ReadResponseStaysInBuffer ==
    /\ ~oob
    /\ InReadResponse => total_read <= max_len - 1
    /\ pc = "rr_ret" /\ ret >= 0 =>
          /\ ret = total_read
          /\ ret = Len(delivered)
          /\ ret <= max_len - 1
          /\ response[ret] = "NUL"
          /\ \A k \in 0..(ret - 1) : response[k] = delivered[k + 1]

\* the largest buffer, filled to its last data byte
C5_Witness ==
    /\ pc = "rr_ret"
    /\ max_len = MaxCap
    /\ ret = max_len - 1
    /\ response[max_len - 1] = "NUL"

\* C6: read_response returns an error exactly when a read failed with an errno
\* other than EAGAIN/EWOULDBLOCK; a read of zero bytes ends the loop and the
\* bytes accumulated so far are returned; EAGAIN/EWOULDBLOCK sends the loop
\* round again and is never returned as an error.
C6_OnlyHardFailureIsAnError ==
    /\ pc = "rr_ret" => (ret < 0 <=> rd = "EIO")
    /\ rd = "EIO" => pc = "rr_ret"
    /\ rd = "zero" => /\ pc \in {"rr_terminate", "rr_ret"}
                      /\ pc = "rr_ret" => ret = Len(delivered)
    /\ rd \in {"EAGAIN", "EWOULDBLOCK"} =>
          /\ pc \in {"rr_while", "rr_read"}
          /\ total_read < max_len - 1

\* a read of zero bytes after data: the data is returned, not an error
C6_Witness ==
    /\ pc = "rr_ret"
    /\ rd = "zero"
    /\ ret >= 1
    /\ ret = Len(delivered)

\* C7: when the send fails the exchange returns without any read on the
\* channel, and process_commands records ERROR for that command.
C7_FailedSendIsNotRead ==
    /\ lastOp = "write_failed" => ~reads /\ ~InReadResponse
    /\ \A f \in failed :
          f[2] = "write" =>
             /\ pc \notin {"field", "newline"} =>
                   CStr(responses[f[1] + 1]) = ErrorText
             /\ pc \in {"field", "newline"} /\ f[1] + 2 <= Len(CurrentRow) =>
                   CurrentRow[f[1] + 2] = <<"field", "ERROR">>

\* the send of the first of two commands failed; its field is ERROR
C7_Witness ==
    /\ pc = "newline"
    /\ N = 2
    /\ <<0, "write">> \in failed
    /\ CurrentRow[2] = <<"field", "ERROR">>
    /\ ~reads

\* C8: in one iteration the commands are sent in configuration order, each
\* once; the channel is flushed right before each send; and a failed exchange
\* does not keep the later commands from being flushed and sent.
C8_InOrderOnceFlushedFirst ==
    /\ sent = [k \in 1..Len(sent) |-> k - 1]
    /\ Len(sent) <= N
    /\ pc = "send" => lastOp = "flush" /\ Len(sent) = i
    /\ InReadResponse \/ pc = "error" => Len(sent) = i + 1
    /\ RowPhase => sent = AllCommands

\* the first exchange failed, and both commands have been sent, in order
C8_Witness ==
    /\ pc = "stamp"
    /\ N = 2
    /\ 0 \in FailedExchanges
    /\ sent = <<0, 1>>

\* C9: read_response returns, whatever the channel does.
C9_ReadResponseReturns == <>(pc = "rr_ret")

\* C10: once a termination signal has set the flag while the polling loop runs
\* (the stream is open), the loop is left, the stream and the serial handle
\* are closed and main returns 0.
C10_SignalLeadsToExit ==
    (running = 0 /\ csv = "open")
        ~> (pc = "exit" /\ exit_code = 0 /\ csv = "closed" /\ fd = "closed")

\* C11: when a termination signal was received before the iteration ended, the
\* loop is left without the interval sleep: the thread is never at the sleep
\* with the flag set by a signal that came during the batch.
C11_NoSleepOnceSignalled ==
    pc = "usleep" /\ running = 0 => sig.when \notin {"alloc", "batch"}

\* C12: with positional commands (no -c) the command list is run once: no
\* second iteration is ever started.
C12_PositionalRunsOnce ==
    ~file_mode /\ ~InSetup => iter <= 1

\* C13: main returns 1 exactly when a setup step failed, and then the polling
\* loop was never entered and no command was sent; it returns 0 only after a
\* run whose setup succeeded (handlers installed, CSV stream created).
SetupDone == handlers /\ csv # "none"
NothingSent == iter = 0 /\ sent = <<>> /\ lastOp = "none" /\ csv_file = <<>>
C13_SetupFailureExitsOne ==
    /\ exit_code \in {-1, 0, 1}
    /\ pc = "exit" <=> exit_code # -1
    /\ InSetup => NothingSent
    /\ pc = "exit" /\ ~SetupDone => exit_code = 1
    /\ exit_code = 1 => ~SetupDone /\ NothingSent
    /\ exit_code = 0 => SetupDone

\* the CSV file could not be created, after a signal had already been caught
C13_Witness ==
    /\ pc = "exit"
    /\ exit_code = 1
    /\ handlers
    /\ fd = "closed"
    /\ running = 0
    /\ Len(commands) = 2

\* C14: when main has returned, neither handle is open; a handle is opened
\* only when it has never been opened before; every step that uses a handle
\* finds it open (no use after close, no second close).
UsesFd == pc \in {"configure", "exchange", "send", "rr_while", "rr_read", "close"}
UsesCsv == pc \in {"stamp", "field", "newline", "fclose"}
Parsed(file) == pc = "cfg_ret" /\ cfg.file = file /\ cfg.ret >= 0

\* C15: for the file of the scenario read_config_file yields the device
\* /dev/ttyS0, baud 9600, interval 500 and the commands AT+CSQ, AT+CREG?, each
\* without white space around it.
C15_ScenarioYieldsTrimmedValues ==
    Parsed(ScenarioFile) =>
        /\ cfg.device = Chars("/dev/ttyS0")
        /\ cfg.baud_rate = 9600
        /\ cfg.interval = 500
        /\ cfg.ret = 2
        /\ commands = <<Chars("AT+CSQ"), Chars("AT+CREG?")>>

\* C16: a commands block yields the items between its braces, in order,
\* without quotes and white space, written on one line as on several.
C16_BlockOnOneLineOrSeveral ==
    Parsed(OneLineBlockFile) \/ Parsed(SeveralLinesBlockFile) =>
        /\ cfg.ret = 2
        /\ commands = <<Chars("AT+CSQ"), Chars("AT+CREG?")>>

\* the characters of s that are neither white space nor a quote, in order
RECURSIVE Solid(_)
Solid(s) ==
    IF s = <<>> THEN <<>>
    ELSE IF isspace(Head(s)) \/ Head(s) = "\"" THEN Solid(Tail(s))
    ELSE <<Head(s)>> \o Solid(Tail(s))

\* t is a piece of s
IsPieceOf(t, s) == \E a \in 1..(Len(s) + 1), b \in 0..Len(s) : t = SubSeq(s, a, b)

\* the first line of the file, without its end of line
FirstLine == LET raw == cfg.file[1] IN SubSeq(raw, 1, Strcspn(raw, {"\r", "\n"}))
HasKey(line, key) ==
    /\ Len(line) >= Len(key)
    /\ SubSeq(line, 1, Len(key)) \in Capitalisations(Chars(key))
ValueOf(line, key) == SubSeq(line, Len(key) + 1, Len(line))

\* C17: whatever the capitalisation of the key of a line, the setting of
\* that key is assigned, and what is assigned is the value text of the line
\* with the case of its letters unchanged.
C17_KeysAnyCaseValuesKeepCase ==
    pc = "cfg_ret" /\ cfg.ret >= 0 /\ cfg.file # <<>> =>
        LET line == FirstLine
        IN /\ HasKey(line, "device:") =>
                 /\ IsPieceOf(cfg.device, ValueOf(line, "device:"))
                 /\ Solid(cfg.device) = Solid(ValueOf(line, "device:"))
           /\ HasKey(line, "output_folder:") =>
                 /\ IsPieceOf(cfg.output_folder, ValueOf(line, "output_folder:"))
                 /\ Solid(cfg.output_folder) = Solid(ValueOf(line, "output_folder:"))
           /\ HasKey(line, "baud_rate:") =>
                 cfg.baud_rate = atoi(ValueOf(line, "baud_rate:"))
           /\ HasKey(line, "interval:") =>
                 cfg.interval = atoi(ValueOf(line, "interval:"))
           /\ HasKey(line, "commands:") =>
                 /\ cfg.in_commands_block
                 /\ cfg.file \in SettingFiles => commands = <<Chars("At+Csq")>>

\* DEVICE: in capitals, with a value of mixed case in quotes
C17_Witness ==
    /\ pc = "cfg_ret"
    /\ cfg.ret = 0
    /\ cfg.file = <<Chars("DEVICE:") \o Text("\"/Dev/TTY\" ")>>
    /\ cfg.device = Chars("/Dev/TTY")

\* C18: read_response leaves its loop for the terminator exactly when a '\n'
\* is among the bytes accumulated so far: it goes on reading while there is
\* none, and stops after the first read that brought one.
C18_StopsExactlyOnNewline ==
    /\ pc = "rr_while" /\ rd = "data" => "LF" \notin Range(delivered)
    /\ pc = "rr_terminate" /\ rd = "data" /\ total_read < max_len - 1 =>
          "LF" \in Range(delivered)

\* C19: every command of the list read_config_file hands to main is non-empty
\* and holds neither a carriage return nor a newline.
C19_CommandsNonEmptyNoTerminator ==
    \A k \in 1..Len(commands) :
        /\ commands[k] # <<>>
        /\ "\r" \notin Range(commands[k])
        /\ "\n" \notin Range(commands[k])

\* C20: no command is stored at an index >= max_count, and the count
\* read_config_file returns is <= max_count.
C20_CountWithinCapacity ==
    /\ Len(commands) <= max_count
    /\ pc = "cfg_ret" => cfg.ret <= max_count

=============================================================================
